---- MODULE Spec2Model ----
(***************************************************************************)
(* ETF autopilot: the signal evaluator (strategy.evaluate_signal), the     *)
(* fee-aware order allocator (strategy.allocate_orders), the reserve and   *)
(* cash-pool folds (state.py) and the daily run (runner.run_daily).        *)
(*                                                                         *)
(* Numbers.  Python floats are modelled on integer grids:                  *)
(*   - CNY amounts are whole CNY; USD amounts are whole USD units;         *)
(*   - ratios are per cent (first_buy_ratio_below_ma200, spread_cost_pct)  *)
(*     or per mille (thresholds, weights);                                 *)
(*   - a return or drawdown close/x - 1 is kept as the exact fraction      *)
(*     (close - x) / x, so a threshold test is exact;                      *)
(*   - a share quantity is a whole number of fractional steps,             *)
(*     steps_per_share steps making one share;                             *)
(*   - a float division that leaves the grid truncates (\div).             *)
(* A market reading that is absent is the float NaN, as data_sources       *)
(* produces it; an unusable one is 0.                                      *)
(***************************************************************************)
EXTENDS Integers, Sequences, FiniteSets, TLC

VARIABLES
    cfg,        \* Config: loaded once, immutable
    holidays,   \* the exchange calendar: the dates that are no session
    today,      \* asof_date of the current run
    trade_log,  \* data/trade_log.csv: sequence of rows, append only
    sig,        \* SignalResult of the latest run_daily
    md,         \* the market reading the latest run_daily evaluated
    run,        \* what the latest run_daily did
    env,        \* the environment of the runs: the readings it draws, the last date
    broker,     \* the BUY orders the brokerage account has received, in order
    a_in,       \* a call of a function on its own: its arguments
    a_pc,       \* that call: how far it has run
    a_st,       \* a call of allocate_orders: orders, leftover pool, top-1/top-2
    a_out       \* that call: what it returned

vars == <<cfg, holidays, today, trade_log, sig, md, run, env, broker,
         a_in, a_pc, a_st, a_out>>

dailyVars == <<holidays, today, trade_log, sig, md, run, env, broker>>

(***************************************************************************)
(* Bounds of the model.                                                    *)
(***************************************************************************)
DaysPerMonth == 4      \* dates d with the same d \div DaysPerMonth share a month
LastDate == 5          \* dates are 0 .. LastDate
BrokerLastDate == 1    \* the dates of the runs against the brokerage API
MaxSubmissions == 3    \* submitted orders after which no run fails any more

(***************************************************************************)
(* Floats.                                                                 *)
(***************************************************************************)
NaN == -1

IsNaN(x) == x = NaN

\* Python truthiness of a float in `if x and x != 0`: NaN is truthy.
Truthy(x) == x # 0

FloatLt(a, b) == ~IsNaN(a) /\ ~IsNaN(b) /\ a < b
FloatGe(a, b) == ~IsNaN(a) /\ ~IsNaN(b) /\ a >= b

\* Optional[float] holding a ratio close/x - 1: None, NaN or (num/den), den > 0.
NoneRatio == [kind |-> "None", num |-> 0, den |-> 1]
NaNRatio == [kind |-> "NaN", num |-> 0, den |-> 1]

\* rsp_close / x - 1 for a truthy x
RatioMinusOne(close, x) ==
    IF IsNaN(close) \/ IsNaN(x)
    THEN NaNRatio
    ELSE [kind |-> "num", num |-> close - x, den |-> x]

\* `r is not None and r <= thr`, thr in per mille
RatioLeq(r, thr) == r.kind = "num" /\ r.num * 1000 <= thr * r.den

Max(a, b) == IF a >= b THEN a ELSE b

(***************************************************************************)
(* calendar_utils.CalendarUtil                                             *)
(***************************************************************************)
\* variant: every date is a session
is_trading_day_Always(hol, d) == TRUE

is_trading_day(hol, d) == d \notin hol

\* the third Friday is one fixed day of every month
third_friday(d) == d % DaysPerMonth = 1

\* variant: the session of the start date is counted
trading_days_between_Inclusive(hol, s, e) ==
    LET n == Cardinality({x \in s .. e : is_trading_day(hol, x)})
    IN  IF s > e THEN 999 ELSE n

\* sessions_in_range(s, e), then n - 1 when s is itself a session
trading_days_between(hol, s, e) ==
    LET n == Cardinality({x \in s .. e : is_trading_day(hol, x)})
    IN  IF s > e THEN 999
        ELSE IF n <= 0 THEN 0
        ELSE IF is_trading_day(hol, s) THEN Max(0, n - 1)
        ELSE n

(***************************************************************************)
(* state.py: folds over the trade log                                      *)
(***************************************************************************)
RECURSIVE SumSeq(_)
SumSeq(s) == IF s = <<>> THEN 0 ELSE Head(s) + SumSeq(Tail(s))

\* pd.to_numeric(..., errors="coerce").fillna(0.0)
FillNa(x) == IF IsNaN(x) THEN 0 ELSE x

\* variant: the uses are not subtracted
get_reserve_balance_cny_AddsOnly(log) ==
    IF log = <<>> THEN 0
    ELSE SumSeq([i \in 1 .. Len(log) |-> FillNa(log[i].reserve_add_cny)])

get_reserve_balance_cny(log) ==
    IF log = <<>> THEN 0
    ELSE SumSeq([i \in 1 .. Len(log) |-> FillNa(log[i].reserve_add_cny)])
         - SumSeq([i \in 1 .. Len(log) |-> FillNa(log[i].reserve_use_cny)])

\* source.upper(), on the spellings the inputs use
Upper(source) ==
    IF source \in {"manual", "MANUAL"} THEN "MANUAL"
    ELSE IF source \in {"auto", "AUTO"} THEN "AUTO"
    ELSE source

\* trade_log["cash_pool_end_cny"].dropna(): the values present, in row order
DropNa(log) ==
    SelectSeq([i \in 1 .. Len(log) |-> log[i].cash_pool_end_cny], LAMBDA x : ~IsNaN(x))

\* last.iloc[-1], 0.0 when last is empty
LastOr0(last) == IF last = <<>> THEN 0 ELSE last[Len(last)]

\* variant: AUTO reads the field of the last row, 0 when it is absent
get_cash_pool_start_cny_LastRow(log, enabled, source, manual_cny) ==
    IF ~enabled THEN 0
    ELSE IF Upper(source) = "MANUAL" THEN manual_cny
    ELSE IF log = <<>> THEN 0
    ELSE IF "cash_pool_end_cny" \notin DOMAIN log[1] THEN 0
    ELSE FillNa(log[Len(log)].cash_pool_end_cny)

\* AUTO: the last value present in the column cash_pool_end_cny; a log read from a
\* file without that column has rows without the field
get_cash_pool_start_cny(log, enabled, source, manual_cny) ==
    IF ~enabled THEN 0
    ELSE IF Upper(source) = "MANUAL" THEN manual_cny
    ELSE IF log = <<>> THEN 0
    ELSE IF "cash_pool_end_cny" \notin DOMAIN log[1] THEN 0
    ELSE LastOr0(DropNa(log))

(***************************************************************************)
(* strategy.evaluate_signal                                                *)
(***************************************************************************)
_month_key(d) == (d \div DaysPerMonth) * DaysPerMonth

SelectRows(log, mk) == SelectSeq(log, LAMBDA r : r.month_key = mk)

HasSignal(tlm, s) == \E i \in 1 .. Len(tlm) : tlm[i].signal = s

MaxDateOf(tlm) ==
    CHOOSE d \in {tlm[i].date : i \in 1 .. Len(tlm)} :
        \A i \in 1 .. Len(tlm) : tlm[i].date <= d

\* variant: the chain without its ReserveOnly branch
SignalOf_NoReserveOnly(itd, first_trigger, second_trigger, third_trigger, reserve_only) ==
    IF ~itd THEN "NotTradingDay"
    ELSE IF third_trigger THEN "Third"
    ELSE IF second_trigger THEN "Second"
    ELSE IF first_trigger THEN "First"
    ELSE "None"

\* the tier, tested in the order of the if/elif chain
SignalOf(itd, first_trigger, second_trigger, third_trigger, reserve_only) ==
    IF ~itd THEN "NotTradingDay"
    ELSE IF third_trigger THEN "Third"
    ELSE IF second_trigger THEN "Second"
    ELSE IF first_trigger THEN "First"
    ELSE IF reserve_only THEN "ReserveOnly"
    ELSE "None"

\* variant: no cooldown
CooldownOk_Always(c, days_since) == TRUE

CooldownOk(c, days_since) == days_since >= c.cooldown_trading_days

MonthLimitOk(c, trades_this_month) == trades_this_month < c.max_trades_per_month

\* variant: the first tier does not look at the trades of the month
FirstTrigger_AnyCount(c, itd, trades_this_month, cooldown_ok, daily_ret, tf) ==
    /\ itd
    /\ cooldown_ok
    /\ (RatioLeq(daily_ret, c.first_daily_drop_threshold) \/ tf)

FirstTrigger(c, itd, trades_this_month, cooldown_ok, daily_ret, tf) ==
    /\ itd
    /\ trades_this_month = 0
    /\ cooldown_ok
    /\ (RatioLeq(daily_ret, c.first_daily_drop_threshold) \/ tf)

\* variant: the second tier does not wait for a First row
SecondTrigger_NoFirst(c, itd, has_first, has_second, cooldown_ok, month_limit_ok, monthly_dd) ==
    /\ itd
    /\ ~has_second
    /\ cooldown_ok
    /\ month_limit_ok
    /\ RatioLeq(monthly_dd, c.second_drawdown_threshold)

SecondTrigger(c, itd, has_first, has_second, cooldown_ok, month_limit_ok, monthly_dd) ==
    /\ itd
    /\ has_first
    /\ ~has_second
    /\ cooldown_ok
    /\ month_limit_ok
    /\ RatioLeq(monthly_dd, c.second_drawdown_threshold)

\* variant: the third tier waits for a drawdown ten points deeper
ThirdTrigger_Deeper(c, itd, has_second, has_third, cooldown_ok, month_limit_ok, monthly_dd) ==
    /\ itd
    /\ has_second
    /\ ~has_third
    /\ cooldown_ok
    /\ month_limit_ok
    /\ RatioLeq(monthly_dd, c.third_drawdown_threshold - 100)

ThirdTrigger(c, itd, has_second, has_third, cooldown_ok, month_limit_ok, monthly_dd) ==
    /\ itd
    /\ has_second
    /\ ~has_third
    /\ cooldown_ok
    /\ month_limit_ok
    /\ RatioLeq(monthly_dd, c.third_drawdown_threshold)

\* variant: the reserve is spent below the MA200 as well
UseReserve_AnyClose(itd, reserve_balance, cooldown_ok, rsp_close, ma200, second_trigger, third_trigger) ==
    /\ itd
    /\ reserve_balance > 0
    /\ cooldown_ok

UseReserve(itd, reserve_balance, cooldown_ok, rsp_close, ma200, second_trigger, third_trigger) ==
    /\ itd
    /\ reserve_balance > 0
    /\ cooldown_ok
    /\ (FloatGe(rsp_close, ma200) \/ second_trigger \/ third_trigger)

BaseBuy(c, signal, below) ==
    IF signal = "First"
    THEN IF below = "True"
         THEN (c.invest_cny_per_trade * c.first_buy_ratio_below_ma200) \div 100
         ELSE c.invest_cny_per_trade
    ELSE IF signal \in {"Second", "Third"} THEN c.invest_cny_per_trade
    ELSE 0

\* variant: the withheld part is banked on every First
ReserveAdd_AnyFirst(c, signal, below) ==
    IF signal = "First"
    THEN (c.invest_cny_per_trade * (100 - c.first_buy_ratio_below_ma200)) \div 100
    ELSE 0

ReserveAdd(c, signal, below) ==
    IF signal = "First" /\ below = "True"
    THEN (c.invest_cny_per_trade * (100 - c.first_buy_ratio_below_ma200)) \div 100
    ELSE 0

\* variant: half of the reserve is spent
ReserveUse_Half(use_reserve, reserve_balance) ==
    IF use_reserve THEN (reserve_balance + 1) \div 2 ELSE 0

ReserveUse(use_reserve, reserve_balance) ==
    IF use_reserve THEN reserve_balance ELSE 0

\* variant: the reserve is never spent
RecommendedBuy_BaseOnly(signal, base, reserve_use) ==
    IF signal \notin {"NotTradingDay", "None"} THEN base ELSE 0

RecommendedBuy(signal, base, reserve_use) ==
    IF signal \notin {"NotTradingDay", "None"} THEN base + reserve_use ELSE 0

evaluate_signal(c, hol, asof, rsp_close, rsp_prev_close, ma200, month_high, log) ==
    LET itd == is_trading_day(hol, asof)
        tf == IF itd THEN third_friday(asof) ELSE FALSE
        daily_ret == IF Truthy(rsp_prev_close)
                     THEN RatioMinusOne(rsp_close, rsp_prev_close) ELSE NoneRatio
        monthly_dd == IF Truthy(month_high)
                      THEN RatioMinusOne(rsp_close, month_high) ELSE NoneRatio
        below == IF Truthy(ma200)
                 THEN (IF FloatLt(rsp_close, ma200) THEN "True" ELSE "False")
                 ELSE "None"
        mk == _month_key(asof)
        tlm == SelectRows(log, mk)
        trades_this_month == Len(tlm)
        has_first == HasSignal(tlm, "First")
        has_second == HasSignal(tlm, "Second")
        has_third == HasSignal(tlm, "Third")
        days_since == IF trades_this_month = 0 \/ ~itd
                      THEN 999
                      ELSE trading_days_between(hol, MaxDateOf(tlm), asof)
        cooldown_ok == CooldownOk(c, days_since)
        month_limit_ok == MonthLimitOk(c, trades_this_month)
        reserve_balance == get_reserve_balance_cny(log)
        first_trigger == FirstTrigger(c, itd, trades_this_month, cooldown_ok, daily_ret, tf)
        second_trigger == SecondTrigger(c, itd, has_first, has_second, cooldown_ok,
                                        month_limit_ok, monthly_dd)
        third_trigger == ThirdTrigger(c, itd, has_second, has_third, cooldown_ok,
                                      month_limit_ok, monthly_dd)
        use_reserve == UseReserve(itd, reserve_balance, cooldown_ok, rsp_close, ma200,
                                  second_trigger, third_trigger)
        reserve_only == itd /\ use_reserve
                        /\ ~(first_trigger \/ second_trigger \/ third_trigger)
        signal == SignalOf(itd, first_trigger, second_trigger, third_trigger, reserve_only)
        base == BaseBuy(c, signal, below)
        reserve_add == ReserveAdd(c, signal, below)
        reserve_use == ReserveUse(use_reserve, reserve_balance)
    IN  [date |-> asof,
         is_trading_day |-> itd,
         third_friday |-> tf,
         daily_return |-> daily_ret,
         monthly_drawdown |-> monthly_dd,
         below_ma200 |-> below,
         month_key |-> mk,
         trades_this_month |-> trades_this_month,
         has_first |-> has_first,
         has_second |-> has_second,
         has_third |-> has_third,
         days_since_last_trade |-> days_since,
         cooldown_ok |-> cooldown_ok,
         month_limit_ok |-> month_limit_ok,
         signal |-> signal,
         base_buy_cny |-> base,
         reserve_add_cny |-> reserve_add,
         reserve_use_cny |-> reserve_use,
         recommended_buy_cny |-> RecommendedBuy(signal, base, reserve_use),
         reserve_balance_before |-> reserve_balance]

(***************************************************************************)
(* fees.BuyFees.fee, for a quantity q in steps (K steps make one share)    *)
(***************************************************************************)
\* variant: without the guard `if shares <= 0`
BuyFee_NoGuard(c, q) ==
    LET K == c.steps_per_share
        comm == Max(c.commission_min_usd, (c.commission_per_share * q) \div K)
        plat == Max(c.platform_min_usd, (c.platform_per_share * q) \div K)
        clearing == (c.clearing_per_share * q) \div K
    IN  comm + plat + clearing + c.other_fixed_fee_usd

BuyFee(c, q) ==
    IF q <= 0 THEN 0
    ELSE LET K == c.steps_per_share
             comm == Max(c.commission_min_usd, (c.commission_per_share * q) \div K)
             plat == Max(c.platform_min_usd, (c.platform_per_share * q) \div K)
             clearing == (c.clearing_per_share * q) \div K
         IN  comm + plat + clearing + c.other_fixed_fee_usd

Min(a, b) == IF a <= b THEN a ELSE b

\* fees.SellExtraFees.fee for the schedule f and a quantity q in steps of 1/K share
SellExtraFee(f, K, q) ==
    IF q <= 0 THEN 0
    ELSE Min(f.activity_max_usd, Max(f.activity_min_usd, (f.activity_per_share * q) \div K))
         + (f.cat_per_share * q) \div K
         + f.sec_fee_usd

\* shares * price
Gross(c, q, price) == (q * price) \div c.steps_per_share

BuyCost(c, q, price) == Gross(c, q, price) + BuyFee(c, q)

(***************************************************************************)
(* strategy.affordable_buy_shares                                          *)
(* The two for-loops run at most FracIterCap (source: 200000) and          *)
(* IntIterCap (source: 100000) times; the caps are scaled with the grid.   *)
(***************************************************************************)
FracIterCap == 3
IntIterCap == 2

\* one test of the loop body: is q within the budget?
Feasible(c, q, price, usd_budget) == BuyCost(c, q, price) <= usd_budget

RECURSIVE FracSearch(_, _, _, _, _)
FracSearch(c, q, it, price, usd_budget) ==
    IF it >= FracIterCap
    THEN [shares |-> q, fee |-> BuyFee(c, q)]          \* "# fallback"
    ELSE IF Feasible(c, q, price, usd_budget)
    THEN [shares |-> q, fee |-> BuyFee(c, q)]
    ELSE LET q2 == Max(0, q - 1)
         IN  IF q2 <= 0 THEN [shares |-> 0, fee |-> 0]
             ELSE FracSearch(c, q2, it + 1, price, usd_budget)

\* n counts whole shares
RECURSIVE IntSearch(_, _, _, _, _)
IntSearch(c, n, it, price, usd_budget) ==
    LET q == n * c.steps_per_share
    IN  IF it >= IntIterCap
        THEN [shares |-> q, fee |-> BuyFee(c, q)]
        ELSE IF Feasible(c, q, price, usd_budget)
        THEN [shares |-> q, fee |-> BuyFee(c, q)]
        ELSE IF n - 1 <= 0 THEN [shares |-> 0, fee |-> 0]
        ELSE IntSearch(c, n - 1, it + 1, price, usd_budget)

affordable_buy_shares(c, usd_budget, price) ==
    IF usd_budget <= 0 \/ price <= 0 THEN [shares |-> 0, fee |-> 0]
    ELSE IF c.allow_fractional_shares
    THEN FracSearch(c, (usd_budget * c.steps_per_share) \div price, 0, price, usd_budget)
    ELSE IntSearch(c, usd_budget \div price, 0, price, usd_budget)

(***************************************************************************)
(* strategy.allocate_orders                                                *)
(* holdings: sequence of [ticker, shares]; prices: ticker -> price.        *)
(* A ticker is addressed by its index in holdings; 0 is the empty name "". *)
(* A value computed once in the source and used often is handed on as an   *)
(* operator parameter.                                                     *)
(***************************************************************************)
\* df["value_cny"]
ValueCny(holdings, prices, fx) ==
    [i \in 1 .. Len(holdings) |-> holdings[i].shares * prices[holdings[i].ticker] * fx]

\* under_score(weight) for weight = value / port_value, scaled by 1000 * port_value;
\* with port_value <= 0 every weight is 0 and the scale is 1000
under_score(c, value, port_value) ==
    IF port_value <= 0
    THEN IF 0 >= c.weight_ceiling_guardrail THEN 0 ELSE Max(0, c.target_weight_each)
    ELSE IF 1000 * value >= c.weight_ceiling_guardrail * port_value THEN 0
    ELSE Max(0, c.target_weight_each * port_value - 1000 * value)

\* df["underscore"]
UnderScores(c, values) ==
    [i \in DOMAIN values |-> under_score(c, values[i], SumSeq(values))]

\* df.sort_values("underscore", ascending=False): the rows that can come first and
\* second. kind is left at its default "quicksort", which pandas and numpy document
\* as not stable, so rows of equal score come in any order. rk[2] is 0 when the
\* second row is not looked at: a frame of one row, or a second score that is not
\* > 0 (top2 is then "" and top2s is 0 whichever row it is).
Highest(score, among) == {i \in among : \A j \in among : score[j] <= score[i]}

SecondOf(score, t1, t2) ==
    IF DOMAIN score = {t1} THEN t2 = 0
    ELSE IF \A j \in DOMAIN score \ {t1} : score[j] <= 0 THEN t2 = 0
    ELSE t2 \in Highest(score, DOMAIN score \ {t1})

Ranks(score) ==
    {rk \in (DOMAIN score) \X (DOMAIN score \cup {0}) :
        rk[1] \in Highest(score, DOMAIN score) /\ SecondOf(score, rk[1], rk[2])}

\* variant: the two shares of the proportional split change places
SuggestedBy_Swapped(score, t1, t2, top1s, top2s, total_cny) ==
    IF SumSeq(score) = 0
    THEN [suggested |-> [i \in DOMAIN score |-> total_cny \div Len(score)],
          top1 |-> t1, top2 |-> 0, score |-> score]
    ELSE IF top2s = 0
    THEN [suggested |-> [i \in DOMAIN score |-> IF i = t1 THEN total_cny ELSE 0],
          top1 |-> t1, top2 |-> 0, score |-> score]
    ELSE [suggested |-> [i \in DOMAIN score |->
                            IF i = t1 THEN (total_cny * top2s) \div (top1s + top2s)
                            ELSE IF i = t2 THEN (total_cny * top1s) \div (top1s + top2s)
                            ELSE 0],
          top1 |-> t1, top2 |-> t2, score |-> score]

\* suggested buy per ticker (CNY) for the ranks t1, t2 with scores top1s, top2s; with
\* sum_us = 0 top1 is the one "# Apply" takes from its own sort
SuggestedBy(score, t1, t2, top1s, top2s, total_cny) ==
    IF SumSeq(score) = 0
    THEN [suggested |-> [i \in DOMAIN score |-> total_cny \div Len(score)],
          top1 |-> t1, top2 |-> 0, score |-> score]
    ELSE IF top2s = 0
    THEN [suggested |-> [i \in DOMAIN score |-> IF i = t1 THEN total_cny ELSE 0],
          top1 |-> t1, top2 |-> 0, score |-> score]
    ELSE [suggested |-> [i \in DOMAIN score |->
                            IF i = t1 THEN (total_cny * top1s) \div (top1s + top2s)
                            ELSE IF i = t2 THEN (total_cny * top2s) \div (top1s + top2s)
                            ELSE 0],
          top1 |-> t1, top2 |-> t2, score |-> score]

SuggestedByRank(score, t1, t2, total_cny) ==
    SuggestedBy(score, t1, t2, score[t1], IF t2 = 0 THEN 0 ELSE score[t2], total_cny)

\* (cny / fx) * (1 - spread)
UsdBudget(c, cny, fx) == (cny * (100 - c.spread_cost_pct)) \div (fx * 100)

\* the first-pass order line of ticker t, bought r = (shares, fee) out of usd_budget;
\* usd_budget and leftover are kept beside the OrderLine fields
BoughtLine(c, t, price, usd_budget, r) ==
    [ticker |-> t, side |-> IF r.shares > 0 THEN "BUY" ELSE "HOLD",
     shares |-> r.shares, price |-> price,
     est_fee_usd |-> r.fee, est_gross_usd |-> Gross(c, r.shares, price),
     note |-> IF r.shares > 0 THEN "OK" ELSE "zero shares",
     usd_budget |-> usd_budget,
     leftover |-> Max(0, usd_budget - (Gross(c, r.shares, price) + r.fee))]

BudgetLine(c, t, price, usd_budget) ==
    BoughtLine(c, t, price, usd_budget, affordable_buy_shares(c, usd_budget, price))

FirstLine(c, t, price, cny, fx) ==
    IF cny <= 0
    THEN [ticker |-> t, side |-> "HOLD", shares |-> 0, price |-> price,
          est_fee_usd |-> 0, est_gross_usd |-> 0, note |-> "",
          usd_budget |-> 0, leftover |-> 0]
    ELSE BudgetLine(c, t, price, UsdBudget(c, cny, fx))

\* "# First pass": the lines and the pooled leftover
PooledLines(sg, lines) ==
    [orders |-> lines,
     pool |-> SumSeq([i \in DOMAIN lines |-> lines[i].leftover]),
     top1 |-> sg.top1, top2 |-> sg.top2,
     suggested |-> sg.suggested, score |-> sg.score, raised |-> FALSE]

FirstPassBy(c, holdings, prices, fx, sg) ==
    PooledLines(sg, [i \in 1 .. Len(holdings) |->
                        FirstLine(c, holdings[i].ticker, prices[holdings[i].ticker],
                                  sg.suggested[i], fx)])

\* rk is the order the sort gave
FirstPass(c, holdings, prices, fx, total_cny, rk) ==
    FirstPassBy(c, holdings, prices, fx,
                SuggestedByRank(UnderScores(c, ValueCny(holdings, prices, fx)),
                                rk[1], rk[2], total_cny))

\* the orders the sort of a call can give
RanksOf(c, holdings, prices, fx) == Ranks(UnderScores(c, ValueCny(holdings, prices, fx)))

(***************************************************************************)
(* allocate_orders.inc_shares: spend the pool on more shares of ticker i.  *)
(* Returns the orders, the pool left and whether the call raised: when the *)
(* fractional for-loop runs out, the function falls off its end, returns   *)
(* None, and the caller's tuple unpacking raises TypeError.                *)
(***************************************************************************)
Unchanged(orders, pool) == [orders |-> orders, pool |-> pool, raised |-> FALSE]

\* variant: the second pass leaves the fee of the first pass on the line
Accept_StaleFee(c, orders, i, new_shares, pool, inc) ==
    [orders |-> [orders EXCEPT ![i].shares = new_shares,
                               ![i].est_gross_usd = Gross(c, new_shares, orders[i].price),
                               ![i].note = "OK(second pass)"],
     pool |-> pool - inc,
     raised |-> FALSE]

Accept(c, orders, i, new_shares, pool, inc) ==
    [orders |-> [orders EXCEPT ![i].shares = new_shares,
                               ![i].est_fee_usd = BuyFee(c, new_shares),
                               ![i].est_gross_usd = Gross(c, new_shares, orders[i].price),
                               ![i].note = "OK(second pass)"],
     pool |-> pool - inc,
     raised |-> FALSE]

\* new_cost - old_cost for `add` more steps
Increment(c, ol, add) ==
    BuyCost(c, ol.shares + add, ol.price) - BuyCost(c, ol.shares, ol.price)

RECURSIVE FracInc(_, _, _, _, _, _)
FracInc(c, orders, i, add, it, pool) ==
    IF it >= FracIterCap
    THEN [orders |-> orders, pool |-> pool, raised |-> TRUE]
    ELSE IF Increment(c, orders[i], add) <= pool
    THEN Accept(c, orders, i, orders[i].shares + add, pool, Increment(c, orders[i], add))
    ELSE IF add - 1 <= 0 THEN Unchanged(orders, pool)
    ELSE FracInc(c, orders, i, add - 1, it + 1, pool)

\* `while add > 0`: add counts whole shares down from add_est, no cap; the loop
\* stops at the first, that is the largest, add whose increment the pool covers
Affordable(c, ol, add_est, pool) ==
    {add \in 1 .. add_est : Increment(c, ol, add * c.steps_per_share) <= pool}

LargestOf(adds) == CHOOSE a \in adds : \A b \in adds : b <= a

IntIncBy(c, orders, i, adds, pool) ==
    IF adds = {} THEN Unchanged(orders, pool)
    ELSE Accept(c, orders, i, orders[i].shares + LargestOf(adds) * c.steps_per_share, pool,
                Increment(c, orders[i], LargestOf(adds) * c.steps_per_share))

IntInc(c, orders, i, add_est, pool) ==
    IntIncBy(c, orders, i, Affordable(c, orders[i], add_est, pool), pool)

inc_shares(c, orders, i, pool) ==
    IF pool <= 0 THEN Unchanged(orders, pool)
    ELSE IF orders[i].side # "BUY" \/ orders[i].shares <= 0 THEN Unchanged(orders, pool)
    ELSE IF c.allow_fractional_shares
    THEN FracInc(c, orders, i, (pool * c.steps_per_share) \div orders[i].price, 0, pool)
    ELSE IntInc(c, orders, i, pool \div orders[i].price, pool)

\* "# Apply": top1 first, then top2 with what top1 left
IncTop(c, r, top) ==
    IF r.raised \/ top = 0 THEN r ELSE inc_shares(c, r.orders, top, r.pool)

Applied(fp, r) == [fp EXCEPT !.orders = r.orders, !.pool = r.pool, !.raised = r.raised]

\* variant: the pool goes to top2 first
SecondPass_Top2First(c, fp) ==
    Applied(fp, IncTop(c, IncTop(c, Unchanged(fp.orders, fp.pool), fp.top2), fp.top1))

SecondPass(c, fp) ==
    Applied(fp, IncTop(c, IncTop(c, Unchanged(fp.orders, fp.pool), fp.top1), fp.top2))

TotalFee(orders) ==
    SumSeq([i \in 1 .. Len(orders) |->
               IF orders[i].side = "BUY" /\ orders[i].shares > 0
               THEN orders[i].est_fee_usd ELSE 0])

\* what allocate_orders returns from the state sp after the second pass; pool is
\* leftover_usd_pool at the return, kept beside the returned values
Returned(sp, fx) ==
    [orders |-> sp.orders, total_fee |-> TotalFee(sp.orders),
     cash_pool_end |-> sp.pool * fx, raised |-> sp.raised, pool |-> sp.pool]

\* variant: the cash pool is added to the budget twice
TotalCny_Twice(c, buy_total_cny, cash_pool_cny) ==
    buy_total_cny + (IF c.cash_pool_enabled THEN 2 * cash_pool_cny ELSE 0)

TotalCny(c, buy_total_cny, cash_pool_cny) ==
    buy_total_cny + (IF c.cash_pool_enabled THEN cash_pool_cny ELSE 0)

\* variant: the early return drops the cash pool
allocate_orders_DropPool(c, holdings, prices, buy_total_cny, cash_pool_cny, fx, rk) ==
    IF buy_total_cny <= 0
    THEN [orders |-> <<>>, total_fee |-> 0, cash_pool_end |-> 0,
          raised |-> FALSE, pool |-> 0]
    ELSE Returned(SecondPass(c, FirstPass(c, holdings, prices, fx,
                                          TotalCny(c, buy_total_cny, cash_pool_cny),
                                          rk)), fx)

\* the whole call: (orders, total fee USD, new cash pool CNY), or raised; rk is the
\* order its sort gives
allocate_orders(c, holdings, prices, buy_total_cny, cash_pool_cny, fx, rk) ==
    IF buy_total_cny <= 0
    THEN [orders |-> <<>>, total_fee |-> 0, cash_pool_end |-> cash_pool_cny,
          raised |-> FALSE, pool |-> 0]
    ELSE Returned(SecondPass(c, FirstPass(c, holdings, prices, fx,
                                          TotalCny(c, buy_total_cny, cash_pool_cny),
                                          rk)), fx)

(***************************************************************************)
(* Configurations (config.load_config).                                    *)
(***************************************************************************)
BaseConfig ==
    [invest_cny_per_trade |-> 2000,
     first_buy_ratio_below_ma200 |-> 50,        \* per cent
     first_daily_drop_threshold |-> -10,        \* per mille
     second_drawdown_threshold |-> -50,
     third_drawdown_threshold |-> -80,
     cooldown_trading_days |-> 1,
     max_trades_per_month |-> 4,
     cash_pool_enabled |-> TRUE,
     cash_pool_source |-> "AUTO",
     cash_pool_manual_cny |-> 0,
     fx_usd_cny |-> 10,
     target_weight_each |-> 300,                \* per mille
     weight_ceiling_guardrail |-> 400,
     spread_cost_pct |-> 0,                     \* per cent
     allow_fractional_shares |-> TRUE,
     steps_per_share |-> 2,                     \* fractional_step = 1/2
     commission_per_share |-> 0,
     commission_min_usd |-> 1,
     platform_per_share |-> 0,
     platform_min_usd |-> 1,
     clearing_per_share |-> 0,
     other_fixed_fee_usd |-> 0,
     broker_mode |-> "paper"]

\* ratio below MA200 (per cent), cooldown, max trades per month
DailyConfigs ==
    {[BaseConfig EXCEPT !.first_buy_ratio_below_ma200 = p[1],
                        !.cooldown_trading_days = p[2],
                        !.max_trades_per_month = p[3]] :
        p \in {<<50, 1, 4>>, <<100, 1, 4>>, <<50, 2, 4>>, <<50, 1, 2>>, <<50, 1, 1>>}}

\* the calendars: date 2 is a holiday, or every date is a session
HolidaySets == {{2}}
SignalHolidaySets == {{2}, {}}

\* MarketData of the signal ticker: close, previous close, MA200, month-to-date high.
\* Usable readings (a flat day, a 5% and a 10% drop from a month high of 100, above
\* and below an MA200 of 97), and readings with one value unusable (0) or absent (NaN).
Reading(c, p, ma, mh) == [close |-> c, prev_close |-> p, ma200 |-> ma, month_high_close |-> mh]

UsableReadings == {Reading(c, 100, 97, 100) : c \in {90, 95, 100}}

Readings ==
    {Reading(c, 100, 97, 100) : c \in {90, 95, 100}}
    \cup {Reading(c, 100, ma, 100) : c \in {95, 100}, ma \in {0, NaN}}
    \cup {Reading(95, 0, 97, 100), Reading(90, 100, 97, 0), Reading(NaN, 100, 97, 100)}

Tickers == <<"A", "B", "C">>

MkHoldings(sh) == [i \in 1 .. Len(Tickers) |-> [ticker |-> Tickers[i], shares |-> sh[i]]]
MkPrices(pr) == [t \in {Tickers[i] : i \in 1 .. Len(Tickers)} |->
                    pr[CHOOSE i \in 1 .. Len(Tickers) : Tickers[i] = t]]

\* holdings.csv and the closes of the portfolio tickers on a run
DailyPortfolios ==
    {[holdings |-> MkHoldings(<<1, 1, 1>>), prices |-> MkPrices(pr)] :
        pr \in {<<20, 40, 20>>, <<900, 900, 900>>}}

\* one portfolio with a single underweight ticker
SignalPortfolios ==
    {[holdings |-> MkHoldings(<<1, 1, 1>>), prices |-> MkPrices(<<20, 40, 30>>)]}

NoSig == evaluate_signal(BaseConfig, {}, 0, NaN, 0, 0, 0, <<>>)
NoReading == [close |-> NaN, prev_close |-> 0, ma200 |-> 0, month_high_close |-> 0]
NoRun == [outcome |-> "init", has_buy |-> FALSE, orders |-> <<>>, pool_usd |-> 0,
          cash_pool_start |-> 0, cash_pool_end |-> 0, total_fee |-> 0]

\* no sort was made
NoRank == <<0, 0>>

NoAllocIn == [holdings |-> <<>>, prices |-> <<>>, buy_total_cny |-> 0,
              cash_pool_cny |-> 0, fx |-> 1]
NoAllocOut == [orders |-> <<>>, total_fee |-> 0, cash_pool_end |-> 0, raised |-> FALSE,
               pool |-> 0]
NoAllocState == [orders |-> <<>>, pool |-> 0, top1 |-> 0, top2 |-> 0,
                 suggested |-> <<>>, score |-> <<>>, raised |-> FALSE]

(***************************************************************************)
(* runner.run_daily                                                        *)
(***************************************************************************)
HasBuy(orders) ==
    \E i \in 1 .. Len(orders) : orders[i].side = "BUY" /\ orders[i].shares > 0

\* the row run_daily appends
LogRow(s, cash_pool_end_cny, total_fee_usd) ==
    [date |-> s.date,
     month_key |-> s.month_key,
     signal |-> s.signal,
     base_buy_cny |-> s.base_buy_cny,
     reserve_add_cny |-> s.reserve_add_cny,
     reserve_use_cny |-> s.reserve_use_cny,
     recommended_buy_cny |-> s.recommended_buy_cny,
     total_fee_usd |-> total_fee_usd,
     cash_pool_end_cny |-> cash_pool_end_cny]

Evaluate(m) ==
    evaluate_signal(cfg, holidays, today, m.close, m.prev_close, m.ma200,
                    m.month_high_close, trade_log)

CashPoolStart ==
    get_cash_pool_start_cny(trade_log, cfg.cash_pool_enabled, cfg.cash_pool_source,
                            cfg.cash_pool_manual_cny)

\* recommended_buy_cny <= 0: no orders, no row
NoTrade(m, s, cash_pool_start) ==
    /\ s.recommended_buy_cny <= 0
    /\ sig' = s
    /\ md' = m
    /\ run' = [outcome |-> "no_trade", has_buy |-> FALSE, orders |-> <<>>, pool_usd |-> 0,
               cash_pool_start |-> cash_pool_start,
               cash_pool_end |-> cash_pool_start, total_fee |-> 0]
    /\ UNCHANGED <<cfg, holidays, today, trade_log, env, broker, a_in, a_pc, a_st, a_out>>

RunDailyNoTrade ==
    \E m \in env.readings : NoTrade(m, Evaluate(m), CashPoolStart)

\* the lines AlpacaBroker.place_orders submits: `if o.side != "BUY" or o.shares <= 0:
\* continue`
BuyLines(orders) == SelectSeq(orders, LAMBDA o : o.side = "BUY" /\ o.shares > 0)

\* what the account has received when place_orders has made n calls of submit_order
\* that returned
Submitted(date, orders, n) ==
    [i \in 1 .. n |-> [date |-> date, ticker |-> BuyLines(orders)[i].ticker,
                       shares |-> BuyLines(orders)[i].shares]]

\* How a run that allocated can go on. PaperBroker writes the orders file and the run
\* goes to its end. With broker.mode "alpaca" every submit_order is a call of the
\* brokerage API and append_trade_log rewrites the log file: either may raise, and
\* run_daily has no handler. 0: nothing raises; k in 1 .. n: the k-th submit_order
\* raises, after k - 1 orders; n + 1: append_trade_log raises, after all n orders.
\* The runs stop failing once the account holds MaxSubmissions orders.
FailPoints(c, res) ==
    IF c.broker_mode = "alpaca" /\ ~res.raised /\ Len(broker) < MaxSubmissions
    THEN 0 .. (Len(BuyLines(res.orders)) + 1)
    ELSE {0}

\* the orders of the run that reach the account
PlaceOrders(c, date, res, fail) ==
    IF c.broker_mode # "alpaca" \/ res.raised THEN <<>>
    ELSE IF fail = 0 THEN Submitted(date, res.orders, Len(BuyLines(res.orders)))
    ELSE Submitted(date, res.orders, fail - 1)

Outcome(res, fail) ==
    IF res.raised THEN "raised"
    ELSE IF fail = 0 THEN "trade"
    ELSE IF fail <= Len(BuyLines(res.orders)) THEN "submit_raised"
    ELSE "append_raised"

\* recommended_buy_cny > 0: allocate, place the orders, append the row; an exception
\* of allocate_orders, of the broker or of append_trade_log ends the run where it is
Trade(m, s, cash_pool_start, res, fail) ==
    /\ sig' = s
    /\ md' = m
    /\ run' = [outcome |-> Outcome(res, fail),
               has_buy |-> HasBuy(res.orders),
               orders |-> res.orders,
               pool_usd |-> res.pool,
               cash_pool_start |-> cash_pool_start,
               cash_pool_end |-> res.cash_pool_end,
               total_fee |-> res.total_fee]
    /\ broker' = broker \o PlaceOrders(cfg, s.date, res, fail)
    /\ trade_log' = IF Outcome(res, fail) = "trade"
                    THEN Append(trade_log, LogRow(s, res.cash_pool_end, res.total_fee))
                    ELSE trade_log
    /\ UNCHANGED <<cfg, holidays, today, env, a_in, a_pc, a_st, a_out>>

Place(m, s, cash_pool_start, res) ==
    \E fail \in FailPoints(cfg, res) : Trade(m, s, cash_pool_start, res, fail)

Allocate(m, pf, s, cash_pool_start) ==
    /\ s.recommended_buy_cny > 0
    /\ \E rk \in RanksOf(cfg, pf.holdings, pf.prices, cfg.fx_usd_cny) :
          Place(m, s, cash_pool_start,
                allocate_orders(cfg, pf.holdings, pf.prices, s.recommended_buy_cny,
                                cash_pool_start, cfg.fx_usd_cny, rk))

RunDailyTrade ==
    \E m \in env.readings, pf \in env.portfolios :
        Allocate(m, pf, Evaluate(m), CashPoolStart)

\* the next run is for a later date
NextDay ==
    /\ today < env.last_date
    /\ today' = today + 1
    /\ UNCHANGED <<cfg, holidays, trade_log, sig, md, run, env, broker,
                   a_in, a_pc, a_st, a_out>>

InitRuns ==
    /\ cfg \in DailyConfigs
    /\ today = 0
    /\ trade_log = <<>>
    /\ sig = NoSig
    /\ md = NoReading
    /\ run = NoRun
    /\ broker = <<>>
    /\ a_in = NoAllocIn
    /\ a_pc = "idle"
    /\ a_st = NoAllocState
    /\ a_out = NoAllocOut

\* runs over dates 0 .. LastDate on usable readings
Init ==
    /\ InitRuns
    /\ holidays \in HolidaySets
    /\ env = [readings |-> UsableReadings, last_date |-> LastDate,
              portfolios |-> DailyPortfolios]

\* runs over the dates of one month on every reading
InitSignal ==
    /\ InitRuns
    /\ holidays \in SignalHolidaySets
    /\ env = [readings |-> Readings, last_date |-> DaysPerMonth - 1,
              portfolios |-> SignalPortfolios]

Next == RunDailyNoTrade \/ RunDailyTrade \/ NextDay

Spec == Init /\ [][Next]_vars

SpecSignal == InitSignal /\ [][Next]_vars

\* runs with broker.mode "alpaca" over the dates 0 .. BrokerLastDate
BrokerConfigs == {[BaseConfig EXCEPT !.broker_mode = "alpaca"]}

\* one portfolio with two underweight tickers of different weight
BrokerPortfolios ==
    {[holdings |-> MkHoldings(<<1, 1, 1>>), prices |-> MkPrices(<<20, 40, 22>>)]}

InitBroker ==
    /\ cfg \in BrokerConfigs
    /\ holidays \in HolidaySets
    /\ today = 0
    /\ trade_log = <<>>
    /\ sig = NoSig
    /\ md = NoReading
    /\ run = NoRun
    /\ broker = <<>>
    /\ env = [readings |-> UsableReadings, last_date |-> BrokerLastDate,
              portfolios |-> BrokerPortfolios]
    /\ a_in = NoAllocIn
    /\ a_pc = "idle"
    /\ a_st = NoAllocState
    /\ a_out = NoAllocOut

SpecBroker == InitBroker /\ [][Next]_vars

(***************************************************************************)
(* allocate_orders on its own: the arguments are drawn, then the call runs *)
(* to its return in two steps, the first pass and the second pass.         *)
(***************************************************************************)
\* fee schedules: none; minimums only; per share above a minimum; a large fixed fee
FeeSchedules ==
    {[commission_per_share |-> f[1], commission_min_usd |-> f[2],
      platform_min_usd |-> f[3], other_fixed_fee_usd |-> f[4]] :
        f \in {<<0, 0, 0, 0>>, <<0, 1, 1, 0>>, <<2, 1, 0, 0>>, <<0, 0, 0, 6>>}}

AllocConfigs ==
    {[BaseConfig EXCEPT !.allow_fractional_shares = frac,
                        !.spread_cost_pct = sp,
                        !.cash_pool_enabled = cp,
                        !.commission_per_share = f.commission_per_share,
                        !.commission_min_usd = f.commission_min_usd,
                        !.platform_min_usd = f.platform_min_usd,
                        !.other_fixed_fee_usd = f.other_fixed_fee_usd] :
        frac \in BOOLEAN, sp \in {0, 10}, cp \in BOOLEAN, f \in FeeSchedules}

\* weights 27/29/44, 29/27/44 (two underweight), 30/30/40 (none), 20/40/40 (one),
\* and an empty portfolio
AllocHoldings ==
    {MkHoldings(sh) : sh \in {<<27, 29, 44>>, <<29, 27, 44>>, <<3, 3, 4>>,
                              <<1, 2, 2>>, <<0, 0, 0>>}}

AllocPrices == {MkPrices(pr) : pr \in {<<2, 2, 2>>, <<2, 0, 2>>, <<4, 2, 2>>}}

\* cash_pool_cny is the last row's value or, with source MANUAL, the configured
\* cash_pool.manual_cny, which load_config takes as it is written, sign included
AllocInputs ==
    [holdings : AllocHoldings,
     prices : AllocPrices,
     buy_total_cny : {0, 7, 24, 10000},
     cash_pool_cny : {6, -30},
     fx : {2}]

InitAlloc ==
    /\ cfg \in AllocConfigs
    /\ holidays = {}
    /\ today = 0
    /\ trade_log = <<>>
    /\ sig = NoSig
    /\ md = NoReading
    /\ run = NoRun
    /\ broker = <<>>
    /\ env = [readings |-> {}, last_date |-> 0, portfolios |-> {}]
    /\ a_in \in AllocInputs
    /\ a_pc = "start"
    /\ a_st = NoAllocState
    /\ a_out = NoAllocOut

\* `if buy_total_cny <= 0: return [], 0.0, cash_pool_cny`, before any sort
AllocReturnEarly ==
    /\ a_pc = "start"
    /\ a_in.buy_total_cny <= 0
    /\ a_pc' = "done"
    /\ a_out' = allocate_orders(cfg, a_in.holdings, a_in.prices, a_in.buy_total_cny,
                                a_in.cash_pool_cny, a_in.fx, NoRank)
    /\ UNCHANGED <<cfg, a_in, a_st>>
    /\ UNCHANGED dailyVars

\* up to the end of the "# First pass" loop
AllocFirstPass ==
    /\ a_pc = "start"
    /\ a_in.buy_total_cny > 0
    /\ a_pc' = "first"
    /\ \E rk \in RanksOf(cfg, a_in.holdings, a_in.prices, a_in.fx) :
          a_st' = FirstPass(cfg, a_in.holdings, a_in.prices, a_in.fx,
                            TotalCny(cfg, a_in.buy_total_cny, a_in.cash_pool_cny), rk)
    /\ UNCHANGED <<cfg, a_in, a_out>>
    /\ UNCHANGED dailyVars

\* "# Apply" to the return (or to the exception of the second pass)
Return(sp) ==
    /\ a_st' = sp
    /\ a_out' = Returned(sp, a_in.fx)
    /\ a_pc' = IF sp.raised THEN "raised" ELSE "done"

AllocSecondPass ==
    /\ a_pc = "first"
    /\ Return(SecondPass(cfg, a_st))
    /\ UNCHANGED <<cfg, a_in>>
    /\ UNCHANGED dailyVars

NextAlloc == AllocReturnEarly \/ AllocFirstPass \/ AllocSecondPass

SpecAlloc == InitAlloc /\ [][NextAlloc]_vars

(***************************************************************************)
(* The folds of state.py on their own, on logs as load_trade_log may read  *)
(* them from a file: a value of a row may be absent (NaN), and the column  *)
(* cash_pool_end_cny may be missing from the file.                         *)
(***************************************************************************)
MaxLogLen == 2

FoldRow(pool, add, use) ==
    [cash_pool_end_cny |-> pool, reserve_add_cny |-> add, reserve_use_cny |-> use]

FoldRows ==
    {FoldRow(pool, r[1], r[2]) :
        pool \in {NaN, 0, 50}, r \in {<<1000, 0>>, <<0, 1000>>, <<NaN, 0>>}}

\* rows of a file without the column cash_pool_end_cny
FoldRowsNoPool ==
    {[reserve_add_cny |-> r[1], reserve_use_cny |-> r[2]] : r \in {<<1000, 0>>, <<0, 1000>>}}

LogsOf(rows) == UNION {[1 .. n -> rows] : n \in 0 .. MaxLogLen}

FoldInputs ==
    [log : LogsOf(FoldRows) \cup LogsOf(FoldRowsNoPool),
     enabled : BOOLEAN,
     source : {"AUTO", "MANUAL", "manual"},
     manual_cny : {0, 70}]

InitFolds ==
    /\ cfg = BaseConfig
    /\ holidays = {}
    /\ today = 0
    /\ trade_log = <<>>
    /\ sig = NoSig
    /\ md = NoReading
    /\ run = NoRun
    /\ broker = <<>>
    /\ env = [readings |-> {}, last_date |-> 0, portfolios |-> {}]
    /\ a_in \in FoldInputs
    /\ a_pc = "start"
    /\ a_st = NoAllocState
    /\ a_out = [cash_pool_start |-> 0, reserve_balance |-> 0]

\* run_daily's two reads of the log
ApplyFolds ==
    /\ a_pc = "start"
    /\ a_pc' = "folded"
    /\ a_out' = [cash_pool_start |->
                    get_cash_pool_start_cny(a_in.log, a_in.enabled, a_in.source,
                                            a_in.manual_cny),
                 reserve_balance |-> get_reserve_balance_cny(a_in.log)]
    /\ UNCHANGED <<cfg, a_in, a_st>>
    /\ UNCHANGED dailyVars

NextFolds == ApplyFolds

SpecFolds == InitFolds /\ [][NextFolds]_vars

(***************************************************************************)
(* The two fee functions on their own: a schedule of each kind and two     *)
(* share counts are drawn, and both fees are computed for both counts.     *)
(***************************************************************************)
\* share counts run from -MaxFeeQty to MaxFeeQty steps
MaxFeeQty == 4

\* commission per share / min, platform per share / min, clearing per share, fixed
BuyFeeSchedules ==
    {<<0, 0, 0, 0, 0, 0>>, <<2, 0, 0, 0, 0, 0>>, <<2, 3, 0, 0, 0, 0>>, <<0, 1, 1, 2, 0, 0>>,
     <<1, 1, 2, 1, 1, 0>>, <<0, 0, 0, 0, 3, 6>>, <<1, 2, 0, 1, 0, 6>>}

FeeConfigs ==
    {[BaseConfig EXCEPT !.commission_per_share = f[1], !.commission_min_usd = f[2],
                        !.platform_per_share = f[3], !.platform_min_usd = f[4],
                        !.clearing_per_share = f[5], !.other_fixed_fee_usd = f[6]] :
        f \in BuyFeeSchedules}

\* activity per share / min / max, CAT per share, SEC fee; the last has max < min
SellFeeSchedules ==
    {[activity_per_share |-> f[1], activity_min_usd |-> f[2], activity_max_usd |-> f[3],
      cat_per_share |-> f[4], sec_fee_usd |-> f[5]] :
        f \in {<<0, 0, 0, 0, 0>>, <<2, 1, 3, 0, 0>>, <<2, 0, 3, 1, 1>>, <<1, 2, 9, 0, 1>>,
               <<0, 1, 9, 2, 0>>, <<2, 3, 1, 1, 0>>}}

FeeInputs ==
    [sell : SellFeeSchedules, q1 : -MaxFeeQty .. MaxFeeQty, q2 : -MaxFeeQty .. MaxFeeQty]

InitFees ==
    /\ cfg \in FeeConfigs
    /\ holidays = {}
    /\ today = 0
    /\ trade_log = <<>>
    /\ sig = NoSig
    /\ md = NoReading
    /\ run = NoRun
    /\ broker = <<>>
    /\ env = [readings |-> {}, last_date |-> 0, portfolios |-> {}]
    /\ a_in \in FeeInputs
    /\ a_pc = "start"
    /\ a_st = NoAllocState
    /\ a_out = [buy1 |-> 0, buy2 |-> 0, sell1 |-> 0, sell2 |-> 0]

ApplyFees ==
    /\ a_pc = "start"
    /\ a_pc' = "fees"
    /\ a_out' = [buy1 |-> BuyFee(cfg, a_in.q1),
                 buy2 |-> BuyFee(cfg, a_in.q2),
                 sell1 |-> SellExtraFee(a_in.sell, cfg.steps_per_share, a_in.q1),
                 sell2 |-> SellExtraFee(a_in.sell, cfg.steps_per_share, a_in.q2)]
    /\ UNCHANGED <<cfg, a_in, a_st>>
    /\ UNCHANGED dailyVars

NextFees == ApplyFees

SpecFees == InitFees /\ [][NextFees]_vars

(***************************************************************************)
(* Properties of evaluate_signal, read off the latest run_daily: sig is    *)
(* the SignalResult, md the reading it was given.                          *)
(***************************************************************************)
Ran == run.outcome # "init"

SigTradingDay == sig.date \notin holidays

\* the conditions in the words of the description
SigThird ==
    /\ sig.has_second /\ ~sig.has_third /\ sig.cooldown_ok /\ sig.month_limit_ok
    /\ RatioLeq(sig.monthly_drawdown, cfg.third_drawdown_threshold)

SigSecond ==
    /\ sig.has_first /\ ~sig.has_second /\ sig.cooldown_ok /\ sig.month_limit_ok
    /\ RatioLeq(sig.monthly_drawdown, cfg.second_drawdown_threshold)

SigFirst ==
    /\ sig.trades_this_month = 0 /\ sig.cooldown_ok
    /\ (RatioLeq(sig.daily_return, cfg.first_daily_drop_threshold) \/ sig.third_friday)

SigUseReserve ==
    /\ SigTradingDay /\ sig.reserve_balance_before > 0 /\ sig.cooldown_ok
    /\ (FloatGe(md.close, md.ma200) \/ SigSecond \/ SigThird)

SigBelowMA200 == Truthy(md.ma200) /\ FloatLt(md.close, md.ma200)

\* C1: the tier is NotTradingDay off a trading day, and otherwise the first that
\* applies of Third, Second, First, ReserveOnly (reserve usable, none of the three
\* triggers), None.
C1_TierIsFirstMatch ==
    Ran =>
        sig.signal = IF ~SigTradingDay THEN "NotTradingDay"
                     ELSE IF SigThird THEN "Third"
                     ELSE IF SigSecond THEN "Second"
                     ELSE IF SigFirst THEN "First"
                     ELSE IF SigUseReserve THEN "ReserveOnly"
                     ELSE "None"

\* a run that resolved to ReserveOnly
C1_Witness == Ran /\ SigTradingDay /\ sig.signal = "ReserveOnly" /\ SigUseReserve /\ ~SigFirst

\* C2: base spend is invest * ratio on a First below the average, invest on any
\* other First, Second or Third, else 0; the reserve addition is invest * (1 - ratio)
\* only on a First below the average; the reserve use is the whole balance when the
\* reserve is usable, else 0; the recommended spend is base + reserve use except on
\* NotTradingDay and None, where it is 0.
C2_Amounts ==
    Ran =>
        /\ sig.base_buy_cny =
             IF sig.signal = "First" /\ SigBelowMA200
             THEN (cfg.invest_cny_per_trade * cfg.first_buy_ratio_below_ma200) \div 100
             ELSE IF sig.signal \in {"First", "Second", "Third"}
             THEN cfg.invest_cny_per_trade
             ELSE 0
        /\ sig.reserve_add_cny =
             IF sig.signal = "First" /\ SigBelowMA200
             THEN (cfg.invest_cny_per_trade * (100 - cfg.first_buy_ratio_below_ma200)) \div 100
             ELSE 0
        /\ sig.reserve_use_cny = IF SigUseReserve THEN sig.reserve_balance_before ELSE 0
        /\ sig.recommended_buy_cny =
             IF sig.signal \in {"NotTradingDay", "None"} THEN 0
             ELSE sig.base_buy_cny + sig.reserve_use_cny

\* invest 2000, ratio 0.5, below the average, first trigger, reserve 0:
\* base 1000, reserve addition 1000, recommended 1000
C2_Witness ==
    /\ Ran
    /\ cfg.invest_cny_per_trade = 2000 /\ cfg.first_buy_ratio_below_ma200 = 50
    /\ sig.signal = "First" /\ SigBelowMA200 /\ sig.reserve_balance_before = 0
    /\ sig.base_buy_cny = 1000 /\ sig.reserve_add_cny = 1000
    /\ sig.recommended_buy_cny = 1000

\* C3: off a trading day the tier is NotTradingDay and base spend, reserve addition,
\* reserve use and recommended spend are all 0, whatever the readings, the history
\* and the reserve balance; the run ends without an order and without an exception.
C3_NotTradingDayIsZero ==
    (Ran /\ ~SigTradingDay) =>
        /\ sig.signal = "NotTradingDay"
        /\ sig.base_buy_cny = 0 /\ sig.reserve_add_cny = 0
        /\ sig.reserve_use_cny = 0 /\ sig.recommended_buy_cny = 0
        /\ run.outcome = "no_trade"

\* a run off a trading day, on a first-tier drop, with trades in the month and a
\* reserve to spend
C3_Witness ==
    /\ Ran /\ ~SigTradingDay
    /\ sig.reserve_balance_before > 0 /\ sig.trades_this_month > 0
    /\ RatioLeq(sig.daily_return, cfg.first_daily_drop_threshold)
    /\ sig.signal = "NotTradingDay"

\* C8 as stated: with a First and a Second entry in the month, monthly drawdown at
\* or below the third threshold, cooldown and month limit satisfied, the tier is Third.
C8_AsStated ==
    (Ran /\ sig.has_first /\ sig.has_second /\ sig.cooldown_ok /\ sig.month_limit_ok
         /\ RatioLeq(sig.monthly_drawdown, cfg.third_drawdown_threshold))
        => sig.signal = "Third"

\* C8, amended: on a trading day, with a First and a Second entry but no Third entry
\* in the month, monthly drawdown at or below the third threshold, cooldown and month
\* limit satisfied, the tier is Third (never Second).
C8_ThirdOnTradingDay ==
    (Ran /\ SigTradingDay /\ sig.has_first /\ sig.has_second /\ ~sig.has_third
         /\ sig.cooldown_ok /\ sig.month_limit_ok
         /\ RatioLeq(sig.monthly_drawdown, cfg.third_drawdown_threshold))
        => sig.signal = "Third"

\* C8 as stated fails on a trading day too: the month already holds its Third
C8_AfterThird ==
    ~(/\ Ran /\ SigTradingDay /\ sig.has_first /\ sig.has_second /\ sig.has_third
      /\ sig.cooldown_ok /\ sig.month_limit_ok
      /\ RatioLeq(sig.monthly_drawdown, cfg.third_drawdown_threshold))

C8_Witness ==
    /\ Ran /\ SigTradingDay /\ sig.has_first /\ sig.has_second /\ ~sig.has_third
    /\ sig.cooldown_ok /\ sig.month_limit_ok
    /\ RatioLeq(sig.monthly_drawdown, cfg.third_drawdown_threshold)
    /\ RatioLeq(sig.monthly_drawdown, cfg.second_drawdown_threshold)
    /\ sig.signal = "Third"

\* C9 as stated: with no trade this month, cooldown satisfied and a daily return at
\* or below the first threshold, the tier is First and the reserve addition is
\* positive exactly when the close is below the 200-day average.
C9_AsStated ==
    (Ran /\ sig.trades_this_month = 0 /\ sig.cooldown_ok
         /\ RatioLeq(sig.daily_return, cfg.first_daily_drop_threshold))
        => /\ sig.signal = "First"
           /\ (sig.reserve_add_cny > 0 <=> SigBelowMA200)

\* C9, amended: on a trading day, with no trade this month, cooldown satisfied and a
\* daily return at or below the first threshold, the tier is First and the reserve
\* addition is invest * (1 - ratio) when the close is below the 200-day average
\* and 0 otherwise.
C9_FirstOnTradingDay ==
    (Ran /\ SigTradingDay /\ sig.trades_this_month = 0 /\ sig.cooldown_ok
         /\ RatioLeq(sig.daily_return, cfg.first_daily_drop_threshold))
        => /\ sig.signal = "First"
           /\ sig.reserve_add_cny =
                IF SigBelowMA200
                THEN (cfg.invest_cny_per_trade * (100 - cfg.first_buy_ratio_below_ma200))
                         \div 100
                ELSE 0

\* a First above the average at a ratio below 1: nothing is banked
C9_Witness ==
    /\ Ran /\ SigTradingDay /\ sig.trades_this_month = 0 /\ sig.cooldown_ok
    /\ RatioLeq(sig.daily_return, cfg.first_daily_drop_threshold)
    /\ ~SigBelowMA200 /\ cfg.first_buy_ratio_below_ma200 < 100
    /\ sig.signal = "First" /\ sig.reserve_add_cny = 0

\* a reading that is zero or absent
Unusable(x) == x = 0 \/ IsNaN(x)

\* C14 as stated: with an unusable MA200, previous close or month high every
\* trigger condition that depends on the reading is false: the reserve is used only
\* with a Second or Third trigger, First fires only by the third Friday, and Second
\* and Third do not fire.
C14_UnusableReadingIsFalse ==
    Ran =>
        /\ Unusable(md.ma200) =>
              /\ sig.below_ma200 # "True"
              /\ sig.reserve_use_cny > 0 => sig.signal \in {"Second", "Third"}
        /\ Unusable(md.prev_close) =>
              /\ ~RatioLeq(sig.daily_return, cfg.first_daily_drop_threshold)
              /\ sig.signal = "First" => sig.third_friday
        /\ Unusable(md.month_high_close) =>
              /\ ~RatioLeq(sig.monthly_drawdown, cfg.second_drawdown_threshold)
              /\ sig.signal \notin {"Second", "Third"}

(***************************************************************************)
(* Properties of the trade log over a sequence of runs.                    *)
(***************************************************************************)
\* sessions after date s up to date e
SessionsAfter(s, e) == Cardinality({x \in (s + 1) .. e : x \notin holidays})

SameMonth(d, e) == d \div DaysPerMonth = e \div DaysPerMonth

\* C10: two rows of the trade log dated in the same month are at least
\* cooldown_trading_days sessions apart; with no row in the month of the run the
\* distance is the sentinel 999 and the cooldown is satisfied.
C10_CooldownWithinMonth ==
    /\ \A i, j \in 1 .. Len(trade_log) :
          (i < j /\ SameMonth(trade_log[i].date, trade_log[j].date))
              => SessionsAfter(trade_log[i].date, trade_log[j].date)
                     >= cfg.cooldown_trading_days
    /\ (Ran /\ sig.trades_this_month = 0)
          => (sig.days_since_last_trade = 999 /\ sig.cooldown_ok)

\* a pair of rows of one month, and a pair across the month boundary that is closer
\* than the cooldown
C10_Witness ==
    /\ \E i, j \in 1 .. Len(trade_log) :
          /\ i < j /\ SameMonth(trade_log[i].date, trade_log[j].date)
    /\ \E i, j \in 1 .. Len(trade_log) :
          /\ i < j /\ ~SameMonth(trade_log[i].date, trade_log[j].date)
          /\ SessionsAfter(trade_log[i].date, trade_log[j].date) < cfg.cooldown_trading_days

\* the rows of the trade log dated in the month of date d
RowsOfMonth(d) == {i \in 1 .. Len(trade_log) : SameMonth(trade_log[i].date, d)}

\* C11 as stated: the rows of the trade log dated in one calendar month, First and
\* ReserveOnly rows included, are never more than max_trades_per_month.
C11_MonthlyRowsWithinLimit ==
    \A d \in 0 .. LastDate :
        Cardinality(RowsOfMonth(d)) <= cfg.max_trades_per_month

\* cash_pool_end_cny of the last of the first n rows, 0 with no row
PoolAfterRow(n) == IF n = 0 THEN 0 ELSE trade_log[n].cash_pool_end_cny

\* the USD budgets the latest run handed to its order lines, in CNY
RunBudgetCny ==
    SumSeq([i \in 1 .. Len(run.orders) |-> run.orders[i].usd_budget]) * cfg.fx_usd_cny

\* C12: with the cash pool enabled and source AUTO, the cash pool a trading run
\* returns and records is its final leftover pool times fx; the next trading run
\* starts from it however many no-trade runs lie between, and it enters that run's
\* budget once (up to the rounding down of the per-ticker budgets); a no-trade run
\* reads the same value and leaves it as it is.
C12_CashPoolCarry ==
    /\ run.outcome = "trade" =>
          /\ run.cash_pool_start = PoolAfterRow(Len(trade_log) - 1)
          /\ run.cash_pool_end = run.pool_usd * cfg.fx_usd_cny
          /\ PoolAfterRow(Len(trade_log)) = run.cash_pool_end
          /\ RunBudgetCny <= sig.recommended_buy_cny + run.cash_pool_start
          /\ RunBudgetCny > sig.recommended_buy_cny + run.cash_pool_start
                                - Len(run.orders) * (cfg.fx_usd_cny + 1)
    /\ run.outcome = "no_trade" =>
          /\ run.cash_pool_start = PoolAfterRow(Len(trade_log))
          /\ run.cash_pool_end = run.cash_pool_start

\* a trading run that starts from the pool a run of an earlier date left, larger
\* than the rounding allowance, and leaves another pool
C12_Witness ==
    /\ run.outcome = "trade" /\ Len(trade_log) >= 2
    /\ trade_log[Len(trade_log) - 1].date < sig.date
    /\ run.cash_pool_start > Len(run.orders) * (cfg.fx_usd_cny + 1)
    /\ run.cash_pool_end > 0 /\ run.cash_pool_end # run.cash_pool_start

\* the run of this step produced an order line that buys a positive quantity
TradeOccurred == run'.outcome = "trade" /\ run'.has_buy

\* C15 as stated: a run appends exactly one row when it produced a BUY line with
\* positive shares and no row otherwise, and no step modifies, reorders or removes
\* a row of the log.
C15_RowIffBuy ==
    [][/\ Len(trade_log') >= Len(trade_log)
       /\ SubSeq(trade_log', 1, Len(trade_log)) = trade_log
       /\ IF today' = today /\ TradeOccurred
          THEN Len(trade_log') = Len(trade_log) + 1
          ELSE trade_log' = trade_log]_vars

\* the rows the latest run read: all but the one it appended
RowsRead == IF run.outcome = "trade" THEN Len(trade_log) - 1 ELSE Len(trade_log)

\* reserve additions less reserve uses of the first n rows, whatever their month
RECURSIVE NetReserve(_)
NetReserve(n) ==
    IF n = 0 THEN 0
    ELSE NetReserve(n - 1) + trade_log[n].reserve_add_cny - trade_log[n].reserve_use_cny

\* C19: the reserve_balance_before of every evaluation is the sum of the reserve
\* additions minus the sum of the reserve uses of all rows of the log it read, of
\* every month, and 0 for an empty log; nothing but the log carries it over.
C19_ReserveIsFoldOfLog ==
    Ran => sig.reserve_balance_before = NetReserve(RowsRead)

\* a balance made of additions of two months, after a use in the first
C19_Witness ==
    /\ Ran /\ sig.reserve_balance_before > 0 /\ RowsRead >= 3
    /\ \E i, j, k \in 1 .. RowsRead :
          /\ i < j /\ j < k
          /\ trade_log[i].reserve_add_cny > 0 /\ trade_log[j].reserve_use_cny > 0
          /\ trade_log[k].reserve_add_cny > 0
          /\ ~SameMonth(trade_log[i].date, trade_log[k].date)

\* the reserve balance a run would read after the first n rows of the log
ReserveAfterRow(n) == get_reserve_balance_cny(SubSeq(trade_log, 1, n))

TierRow(i, s) == trade_log[i].signal = s

\* some row before row i, dated in the month of row i, has tier s
EarlierInMonth(i, s) ==
    \E j \in 1 .. i - 1 :
        SameMonth(trade_log[j].date, trade_log[i].date) /\ TierRow(j, s)

\* C24: in the trade log of any sequence of daily runs, each of the tiers First,
\* Second and Third occurs at most once per calendar month, every Second row comes
\* after a First row of its month, and every Third row after a Second row of its month.
C24_TiersInOrder ==
    \A i \in 1 .. Len(trade_log) :
        /\ \A s \in {"First", "Second", "Third"} : TierRow(i, s) => ~EarlierInMonth(i, s)
        /\ TierRow(i, "Second") => EarlierInMonth(i, "First")
        /\ TierRow(i, "Third") => EarlierInMonth(i, "Second")

\* a month with its First, Second and Third row, and a First row of the next month
C24_Witness ==
    \E i, j, k, l \in 1 .. Len(trade_log) :
        /\ i < j /\ j < k /\ k < l
        /\ TierRow(i, "First") /\ TierRow(j, "Second") /\ TierRow(k, "Third")
        /\ TierRow(l, "First")
        /\ SameMonth(trade_log[i].date, trade_log[k].date)
        /\ ~SameMonth(trade_log[k].date, trade_log[l].date)

\* an order for date d has reached the account; the log has a row dated d
SubmittedFor(d) == \E i \in 1 .. Len(broker) : broker[i].date = d

RowFor(d) == \E i \in 1 .. Len(trade_log) : trade_log[i].date = d

\* C25 as stated: however a run of run_daily ends, by its return or by an exception
\* of the order submission or of a later step, every date for which a BUY order has
\* been submitted has a row in the trade log, and so no ticker's BUY is submitted
\* twice for one date.
C25_SubmittedHasRow ==
    /\ \A d \in 0 .. today : SubmittedFor(d) => RowFor(d)
    /\ \A i, j \in 1 .. Len(broker) :
          (broker[i].date = broker[j].date /\ broker[i].ticker = broker[j].ticker) => i = j

\* C26: with cooldown_trading_days >= 1, a run of run_daily for a date that already
\* has a row in the trade log produces no trade and appends nothing, so that the log
\* never holds two rows of one date.
C26_RerunAppendsNothing ==
    [][cfg.cooldown_trading_days >= 1 =>
          /\ (today' = today /\ run' # run /\ RowFor(today)) =>
                (run'.outcome = "no_trade" /\ trade_log' = trade_log)
          /\ \A i, j \in 1 .. Len(trade_log') :
                trade_log'[i].date = trade_log'[j].date => i = j]_vars

\* a rerun for a date that has its row, on a reading deep enough for the next tier:
\* it is held back by the cooldown alone (no session since the row) and trades nothing
C26_Witness ==
    /\ run.outcome = "no_trade"
    /\ sig.date = today
    /\ RowFor(today)
    /\ sig.days_since_last_trade = 0
    /\ sig.has_first /\ ~sig.has_second /\ sig.month_limit_ok
    /\ RatioLeq(sig.monthly_drawdown, cfg.second_drawdown_threshold)

\* the sessions of the month of today before today
EarlierSessions == {x \in _month_key(today) .. today - 1 : is_trading_day(holidays, x)}

\* the run for today has gone to its end, and every earlier session of the month has
\* left a row: the evaluator has been run on every session of the month so far
RunOnEverySession ==
    /\ run.outcome \in {"trade", "no_trade"}
    /\ sig.date = today
    /\ \A x \in EarlierSessions : RowFor(x)

\* C27 as stated: when the evaluator has been run on every trading day of a month up
\* to its third Friday, a trading day, the trade log has a First row of that month at
\* the end of the third Friday's run, whatever reserve the month started with.
C27_ThirdFridayHasFirst ==
    (RunOnEverySession /\ is_trading_day(holidays, today) /\ third_friday(today)) =>
        \E i \in 1 .. Len(trade_log) :
            SameMonth(trade_log[i].date, today) /\ TierRow(i, "First")

\* first_trigger, second_trigger and third_trigger of the latest evaluation
SigFirstTrigger ==
    FirstTrigger(cfg, sig.is_trading_day, sig.trades_this_month, sig.cooldown_ok,
                 sig.daily_return, sig.third_friday)

SigSecondTrigger ==
    SecondTrigger(cfg, sig.is_trading_day, sig.has_first, sig.has_second, sig.cooldown_ok,
                  sig.month_limit_ok, sig.monthly_drawdown)

SigThirdTrigger ==
    ThirdTrigger(cfg, sig.is_trading_day, sig.has_second, sig.has_third, sig.cooldown_ok,
                 sig.month_limit_ok, sig.monthly_drawdown)

\* C28: in every evaluation at most one of first_trigger, second_trigger and
\* third_trigger is true, so the tier is the one of the trigger that is true, in
\* whatever order the three are tested.
C28_OneTrigger ==
    Ran =>
        /\ ~(SigFirstTrigger /\ SigSecondTrigger)
        /\ ~(SigFirstTrigger /\ SigThirdTrigger)
        /\ ~(SigSecondTrigger /\ SigThirdTrigger)
        /\ SigFirstTrigger <=> sig.signal = "First"
        /\ SigSecondTrigger <=> sig.signal = "Second"
        /\ SigThirdTrigger <=> sig.signal = "Third"

\* a Second on a day whose daily drop alone would do for a First
C28_Witness ==
    /\ Ran /\ sig.signal = "Second" /\ SigSecondTrigger
    /\ RatioLeq(sig.daily_return, cfg.first_daily_drop_threshold)
    /\ sig.cooldown_ok

\* C29: in every SignalResult a reserve use > 0 comes with the tier First, Second,
\* Third or ReserveOnly, never with a tier whose recommended spend is forced to 0,
\* and the reserve addition and the reserve use are never both > 0.
C29_ReserveUseHasTier ==
    Ran =>
        /\ sig.reserve_use_cny > 0 =>
              /\ sig.signal \in {"First", "Second", "Third", "ReserveOnly"}
              /\ sig.recommended_buy_cny >= sig.reserve_use_cny
        /\ ~(sig.reserve_add_cny > 0 /\ sig.reserve_use_cny > 0)

\* a First below the MA200 that banks its addition and leaves the reserve it found
C29_Witness ==
    /\ Ran /\ sig.signal = "First"
    /\ sig.reserve_balance_before > 0
    /\ sig.reserve_add_cny > 0
    /\ sig.reserve_use_cny = 0

(***************************************************************************)
(* Properties of allocate_orders, read off the call in a_in, a_st, a_out.  *)
(***************************************************************************)
\* the call got past its early return
Allocating == a_pc \in {"first", "done", "raised"}

\* shares * price + fee of an order line
LineCost(ol) == (ol.shares * ol.price) \div cfg.steps_per_share + ol.est_fee_usd

\* the budget of the call: the recommended spend and, when enabled, the cash pool
AllocBudget == a_in.buy_total_cny + (IF cfg.cash_pool_enabled THEN a_in.cash_pool_cny ELSE 0)

\* the highest score, and the highest of the others
TopScore(sc) == CHOOSE v \in {sc[i] : i \in DOMAIN sc} : \A j \in DOMAIN sc : sc[j] <= v

RunnerUpScore(sc) ==
    CHOOSE v \in {sc[i] : i \in DOMAIN sc} :
        \E i1, i2 \in DOMAIN sc :
            /\ i1 # i2 /\ sc[i1] = TopScore(sc) /\ sc[i2] = v
            /\ \A j \in DOMAIN sc \ {i1} : sc[j] <= v

HoldLine(i) == a_st.orders[i].side = "HOLD" /\ a_st.orders[i].shares = 0

\* what the first pass left unspent, pooled for the second pass
PooledLeftover == SumSeq([i \in 1 .. Len(a_st.orders) |-> a_st.orders[i].leftover])

\* C4 as stated: on return, shares * price + fee of every order line is at most the
\* sub-budget (USD) of its ticker, counting with it the leftover pool that the second
\* pass may have spent on the line.
C4_NoOverspend ==
    a_pc = "done" =>
        \A i \in 1 .. Len(a_st.orders) :
            LineCost(a_st.orders[i]) <= a_st.orders[i].usd_budget + PooledLeftover

\* C5 as stated: on return, the costs (gross + fee) of all order lines plus the
\* unspent leftover pool add up to the USD budgets the call handed out.
C5_CashConserved ==
    a_pc = "done" =>
        SumSeq([i \in 1 .. Len(a_st.orders) |-> LineCost(a_st.orders[i])]) + a_st.pool
            = SumSeq([i \in 1 .. Len(a_st.orders) |-> a_st.orders[i].usd_budget])

\* the first-pass search of a line ran out of iterations: every quantity it tested
\* was positive and over budget, and so is there one more to test
FirstSearchExhausted(ol) ==
    LET K == cfg.steps_per_share
        frac == cfg.allow_fractional_shares
        q0 == IF frac THEN (ol.usd_budget * K) \div ol.price
              ELSE (ol.usd_budget \div ol.price) * K
        dq == IF frac THEN 1 ELSE K
        cap == IF frac THEN FracIterCap ELSE IntIterCap
    IN  /\ q0 - cap * dq > 0
        /\ \A k \in 0 .. cap - 1 :
              (((q0 - k * dq) * ol.price) \div K) + BuyFee(cfg, q0 - k * dq) > ol.usd_budget

\* C6 as stated: a search that exhausts its iteration cap ends with a quantity
\* within the budget (the last feasible one, or none), and never with an exception.
C6_ExhaustedSearchWithinBudget ==
    /\ a_pc = "first" =>
          \A i \in 1 .. Len(a_st.orders) :
              (a_st.orders[i].usd_budget > 0 /\ a_st.orders[i].price > 0
                   /\ FirstSearchExhausted(a_st.orders[i]))
                  => LineCost(a_st.orders[i]) <= a_st.orders[i].usd_budget
    /\ a_pc # "raised"

\* C7: with all scores 0 every ticker is suggested budget / n; with a runner-up
\* score of 0 the top ticker is suggested the whole budget; otherwise the top two
\* are suggested budget * s_i / (s1 + s2); every other ticker is suggested 0 and
\* gets a HOLD line.
C7_SuggestedSplit ==
    Allocating =>
        LET sc == a_st.score
            sg == a_st.suggested
            s1 == TopScore(sc)
            s2 == RunnerUpScore(sc)
        IN  IF SumSeq(sc) = 0
            THEN \A i \in DOMAIN sc : sg[i] = AllocBudget \div Len(sc)
            ELSE IF s2 = 0
            THEN \E t \in DOMAIN sc :
                    /\ sc[t] = s1 /\ sg[t] = AllocBudget
                    /\ \A i \in DOMAIN sc \ {t} : sg[i] = 0 /\ HoldLine(i)
            ELSE \E t1, t2 \in DOMAIN sc :
                    /\ t1 # t2 /\ sc[t1] = s1 /\ sc[t2] = s2
                    /\ sg[t1] = (AllocBudget * s1) \div (s1 + s2)
                    /\ sg[t2] = (AllocBudget * s2) \div (s1 + s2)
                    /\ \A i \in DOMAIN sc \ {t1, t2} : sg[i] = 0 /\ HoldLine(i)

\* scores in the ratio 0.03 : 0.01 and a budget of 10000 CNY give 7500 and 2500
C7_Witness ==
    /\ a_pc = "done"
    /\ AllocBudget = 10000
    /\ a_st.score[1] = 3 * a_st.score[2] /\ a_st.score[2] > 0 /\ a_st.score[3] = 0
    /\ a_st.suggested = <<7500, 2500, 0>>
    /\ HoldLine(3)

\* the smallest quantity a line can buy: one step, or one whole share
SmallestBuy == IF cfg.allow_fractional_shares THEN 1 ELSE cfg.steps_per_share

\* a ticker priced <= 0 gets a HOLD line with 0 shares and 0 fee
NoPriceIsHold(ol) ==
    ol.price <= 0 => (ol.side = "HOLD" /\ ol.shares = 0 /\ ol.est_fee_usd = 0)

\* a sub-budget below the fee of the smallest buy gets a HOLD line with 0 shares
NoFeeCoverIsHold(ol) ==
    BuyFee(cfg, SmallestBuy) > ol.usd_budget => (ol.side = "HOLD" /\ ol.shares = 0)

\* C13 as stated: allocate_orders never raises; in what it builds and returns, a
\* ticker priced <= 0 has a HOLD line with 0 shares and 0 fee, and a budget too
\* small to cover the fees has a HOLD line with 0 shares.
C13_NeverRaises ==
    /\ a_pc # "raised"
    /\ Allocating =>
          \A i \in 1 .. Len(a_st.orders) :
              NoPriceIsHold(a_st.orders[i]) /\ NoFeeCoverIsHold(a_st.orders[i])

\* the call returned at once: no pass ran, no order line, fee 0, the cash pool as given
ReturnedAtOnce ==
    /\ a_pc = "done" /\ a_st = NoAllocState
    /\ a_out.orders = <<>> /\ a_out.total_fee = 0
    /\ a_out.cash_pool_end = a_in.cash_pool_cny

\* C16 as stated: a call whose budget (recommended spend plus, when enabled, the
\* cash pool) is <= 0 returns at once with no order line, fee 0 and the cash pool
\* unchanged.
C16_AsStated == (a_pc # "start" /\ AllocBudget <= 0) => ReturnedAtOnce

\* C16 amended: the call returns at once exactly when the recommended spend is <= 0,
\* whatever the cash pool; with a positive recommended spend and a budget <= 0 it
\* runs both passes and returns a HOLD line with 0 shares per ticker, fee 0 and a
\* cash pool of 0.
C16_EarlyReturnOnSpend ==
    a_pc # "start" =>
        /\ a_in.buy_total_cny <= 0 <=> ReturnedAtOnce
        /\ (a_in.buy_total_cny > 0 /\ AllocBudget <= 0 /\ a_pc = "done") =>
              /\ Len(a_out.orders) = Len(a_in.holdings)
              /\ \A i \in 1 .. Len(a_out.orders) : HoldLine(i)
              /\ a_out.total_fee = 0 /\ a_out.cash_pool_end = 0

\* an early return that hands back a positive cash pool although, with the pool
\* enabled, the budget is positive
C16_Witness ==
    /\ a_pc = "done" /\ a_in.buy_total_cny <= 0
    /\ cfg.cash_pool_enabled /\ a_in.cash_pool_cny > 0 /\ AllocBudget > 0
    /\ a_out.cash_pool_end = a_in.cash_pool_cny

\* the first in input order of the highest scores among the tickers `among`
FirstHighest(score, among) ==
    CHOOSE i \in Highest(score, among) : \A j \in Highest(score, among) : i <= j

LargerQuantities(ol) ==
    {q \in (ol.shares + 1) .. ((ol.usd_budget * cfg.steps_per_share) \div ol.price) :
        q % SmallestBuy = 0}

\* C21 as stated: after the first pass the quantity of every ticker with a positive
\* sub-budget and a price is within the sub-budget, fee included, and no larger
\* multiple of the step (of a whole share when fractional shares are off) is; it
\* is 0 when no positive quantity is.
C21_FirstPassIsMaximum ==
    a_pc = "first" =>
        \A i \in 1 .. Len(a_st.orders) :
            (a_st.orders[i].usd_budget > 0 /\ a_st.orders[i].price > 0) =>
                /\ LineCost(a_st.orders[i]) <= a_st.orders[i].usd_budget
                /\ \A q \in LargerQuantities(a_st.orders[i]) :
                      ~Feasible(cfg, q, a_st.orders[i].price, a_st.orders[i].usd_budget)

\* what the second pass added to the cost of line i
SecondPassCost(i) == LineCost(a_st'.orders[i]) - LineCost(a_st.orders[i])

\* the additions to line i above the one made that the pool could pay for before fees
LargerAdditions(i, pool) ==
    {add \in (a_st'.orders[i].shares - a_st.orders[i].shares + 1)
                 .. ((pool * cfg.steps_per_share) \div a_st.orders[i].price) :
        add % SmallestBuy = 0}

\* line i was a BUY of the first pass
FirstPassBuy(i) == a_st.orders[i].side = "BUY" /\ a_st.orders[i].shares > 0

\* C22 as stated: the second pass offers the whole pooled leftover to top1 (it gets
\* the largest addition the pool pays for) and what top1 left to top2; only a line
\* that the first pass made a BUY gets more shares; the cost added to a line is at
\* most the pool offered to it, and the pool is never negative afterwards.
C22_SecondPassOrder ==
    [][(a_pc = "first" /\ a_pc' = "done") =>
          /\ Len(a_st'.orders) = Len(a_st.orders)
          /\ \A i \in 1 .. Len(a_st.orders) :
                a_st'.orders[i].shares # a_st.orders[i].shares =>
                    /\ i \in {a_st.top1, a_st.top2}
                    /\ FirstPassBuy(i)
                    /\ a_st'.orders[i].shares > a_st.orders[i].shares
          /\ SecondPassCost(a_st.top1) <= a_st.pool
          /\ FirstPassBuy(a_st.top1) =>
                \A add \in LargerAdditions(a_st.top1, a_st.pool) :
                    Increment(cfg, a_st.orders[a_st.top1], add) > a_st.pool
          /\ a_st.top2 # 0 =>
                SecondPassCost(a_st.top2) <= a_st.pool - SecondPassCost(a_st.top1)
          /\ a_st'.pool = a_st.pool - SumSeq([i \in 1 .. Len(a_st.orders) |->
                                                 SecondPassCost(i)])
          /\ a_st'.pool >= 0]_vars

\* top1 and top2 are both BUY lines of the first pass, the pool was offered to top1,
\* and top2 has got more shares out of what top1 left
C22_Witness ==
    /\ a_pc = "done"
    /\ a_st.top2 # 0
    /\ a_st.orders[a_st.top1].side = "BUY"
    /\ a_st.orders[a_st.top2].note = "OK(second pass)"
    /\ LineCost(a_st.orders[a_st.top2]) + a_st.orders[a_st.top2].leftover
          > a_st.orders[a_st.top2].usd_budget
    /\ ~FirstSearchExhausted(a_st.orders[a_st.top2])

\* an order line as allocate_orders builds it: BUY exactly with shares > 0, else HOLD
\* with nothing on it; the fee and the gross are those of its shares
ConsistentLine(ol) ==
    /\ ol.side \in {"BUY", "HOLD"}
    /\ ol.side = "BUY" <=> ol.shares > 0
    /\ ol.side = "HOLD" => (ol.shares = 0 /\ ol.est_fee_usd = 0 /\ ol.est_gross_usd = 0)
    /\ ol.est_fee_usd = BuyFee(cfg, ol.shares)
    /\ ol.est_gross_usd = Gross(cfg, ol.shares, ol.price)

\* the fees of the BUY lines
BuyLineFees(orders) ==
    SumSeq([i \in 1 .. Len(orders) |->
               IF orders[i].side = "BUY" THEN orders[i].est_fee_usd ELSE 0])

\* C30: a call of allocate_orders with a positive buy_total_cny returns one order
\* line per row of the holdings, in their order; every line is BUY exactly when its
\* shares are > 0 and HOLD otherwise, a HOLD line has 0 shares, 0 fee and 0 gross, the
\* fee of a line is BuyFee of its shares and its gross shares * price, after the
\* second pass too, and the total fee returned is the sum of the fees of the BUY lines.
C30_LinesConsistent ==
    (a_pc = "done" /\ a_in.buy_total_cny > 0) =>
        /\ Len(a_out.orders) = Len(a_in.holdings)
        /\ \A i \in 1 .. Len(a_out.orders) :
              /\ a_out.orders[i].ticker = a_in.holdings[i].ticker
              /\ a_out.orders[i].price = a_in.prices[a_in.holdings[i].ticker]
              /\ ConsistentLine(a_out.orders[i])
        /\ a_out.total_fee = BuyLineFees(a_out.orders)

\* a return with a line that the second pass has added to, at a fee, beside a line
\* whose budget bought nothing
C30_Witness ==
    /\ a_pc = "done" /\ a_in.buy_total_cny > 0
    /\ \E i, j \in 1 .. Len(a_out.orders) :
          /\ a_out.orders[i].note = "OK(second pass)"
          /\ LineCost(a_out.orders[i]) + a_out.orders[i].leftover
                > a_out.orders[i].usd_budget
          /\ ~FirstSearchExhausted(a_out.orders[i])
          /\ a_out.orders[i].est_fee_usd > 0
          /\ a_out.orders[j].side = "HOLD" /\ a_out.orders[j].usd_budget > 0

(***************************************************************************)
(* Properties of the folds of state.py, read off the call in a_in, a_out.  *)
(***************************************************************************)
Folded == a_pc = "folded"

HasPoolColumn(log) == log # <<>> /\ "cash_pool_end_cny" \in DOMAIN log[1]

\* the field cash_pool_end_cny of row i, NaN when the row has none
PoolOfRow(log, i) == IF HasPoolColumn(log) THEN log[i].cash_pool_end_cny ELSE NaN

\* the rows whose field is present
RowsWithPool(log) == {i \in 1 .. Len(log) : ~IsNaN(PoolOfRow(log, i))}

C20_FeesMonotone ==
    a_pc = "fees" =>
        /\ a_in.q1 <= a_in.q2 => (a_out.buy1 <= a_out.buy2 /\ a_out.sell1 <= a_out.sell2)
        /\ a_in.q1 <= 0 => (a_out.buy1 = 0 /\ a_out.sell1 = 0)
        /\ a_in.q2 <= 0 => (a_out.buy2 = 0 /\ a_out.sell2 = 0)

\* two positive counts: the buy fee grows from the minimum to the per-share
\* commission, and the activity fee is held at its maximum
C20_Witness ==
    /\ a_pc = "fees" /\ 0 < a_in.q1 /\ a_in.q1 < a_in.q2
    /\ a_out.buy1 = cfg.commission_min_usd /\ a_out.buy1 < a_out.buy2
    /\ a_out.sell1 < a_out.sell2
    /\ a_out.sell2 = a_in.sell.activity_max_usd + a_in.sell.sec_fee_usd
                         + (a_in.sell.cat_per_share * a_in.q2) \div cfg.steps_per_share
====
